---- MODULE Spec2Model ----
(***************************************************************************)
(* The UVM tool chain: the assembler (src/assembler.py) translating lines  *)
(* of assembly into the packed little-endian binary, and the interpreter   *)
(* (src/interpreter.py) fetching, decoding and executing that binary on a  *)
(* data memory.                                                            *)
(*                                                                         *)
(* Python's unbounded integers are modelled as sequences of bits, least    *)
(* significant bit first (the 101-bit GTE word does not fit a machine      *)
(* integer); a negative integer is the one value NegInt, which is all the  *)
(* code can observe of it (x | y is negative iff x or y is; to_bytes of a  *)
(* negative raises OverflowError).  Byte strings are sequences of 0..255.  *)
(***************************************************************************)
EXTENDS Integers, Sequences, FiniteSets, TLC

VARIABLES
    source,        \* assembler main: the lines read from the input file
    asm_pc,        \* assembler main: "start" | "assembled" | "written" | "failed" | "crashed"
    instructions,  \* Assembler.instructions
    out_file,      \* the bytes assembler main wrote to the output file
    vm_pc,         \* interpreter main: "new" | "loaded" | "running" | "done" | "raised"
    code_memory,   \* VirtualMachine.code_memory
    pc,            \* VirtualMachine.pc
    data_memory,   \* VirtualMachine.data_memory, indexed 0..memory_size-1
    step_count,    \* run(): step_count
    result,        \* run(): result, the value the last step() returned
    fields,        \* the locals the last execute_* read with read_bits
    error,         \* the exception that ended run(): "none" | "ValueError" | "IndexError"
    verbose,       \* run(verbose): whether run() prints what it executes
    stdout,        \* the lines run() printed
    dump,          \* dump_memory_xml: the range asked for and the cells written, or the exception
    calls          \* how many calls the driver made on the machine after its first run

vars == <<source, asm_pc, instructions, out_file, vm_pc, code_memory, pc,
          data_memory, step_count, result, fields, error, verbose, stdout, dump, calls>>

----------------------------------------------------------------------------
(* Bounds of the model *)

\* VirtualMachine(memory_size=...): the number of data-memory cells
memory_size == 12
\* the number of lines of a source program
MaxProg == 3
\* how many trailing bytes of the binary file may be missing when it is loaded
MaxCut == 1

----------------------------------------------------------------------------
(* Python integers and bytes *)

\* F(e), with e evaluated once, as Python evaluates an argument
Eval(e, F(_)) == CHOOSE r \in { F(x) : x \in {e} } : TRUE

\* 2^0 .. 2^7
PowersOf2 == <<1, 2, 4, 8, 16, 32, 64, 128>>

Min(a, b) == IF a <= b THEN a ELSE b
Max(a, b) == IF a >= b THEN a ELSE b

\* the negative integers, as far as | << and to_bytes tell them apart
NegInt == <<-1>>

RECURSIVE NatBits(_)
NatBits(n) == IF n = 0 THEN <<>> ELSE <<n % 2>> \o NatBits(n \div 2)

\* a Python int from a machine-size value
PyInt(n) == IF n < 0 THEN NegInt ELSE NatBits(n)

Bit(v, i) == IF i <= Len(v) THEN v[i] ELSE 0

\* v << k
Shl(v, k) ==
    Eval(v, LAMBDA x :
        IF x = NegInt THEN NegInt
        ELSE [i \in 1..(Len(x) + k) |-> IF i <= k THEN 0 ELSE x[i - k]])

\* v >> k, v >= 0
Shr(v, k) ==
    Eval(v, LAMBDA x :
        IF k >= Len(x) THEN <<>> ELSE [i \in 1..(Len(x) - k) |-> x[i + k]])

\* a | b
BitOr(a, b) ==
    Eval(a, LAMBDA x : Eval(b, LAMBDA y :
        IF x = NegInt \/ y = NegInt THEN NegInt
        ELSE [i \in 1..Max(Len(x), Len(y)) |->
                IF Bit(x, i) = 1 \/ Bit(y, i) = 1 THEN 1 ELSE 0]))

\* v & ((1 << length) - 1), v >= 0
AndMask(v, length) == Eval(v, LAMBDA x : [i \in 1..Min(length, Len(x)) |-> x[i]])

\* the value of bits i.. of v, as a machine-size integer
RECURSIVE BitsValueFrom(_, _)
BitsValueFrom(v, i) == IF i > Len(v) THEN 0 ELSE v[i] + 2 * BitsValueFrom(v, i + 1)

BitsValue(v) == Eval(v, LAMBDA x : BitsValueFrom(x, 1))

\* the number of bits of v up to its highest 1, among the first n
RECURSIVE BitLengthUpTo(_, _)
BitLengthUpTo(v, n) ==
    IF n = 0 THEN 0
    ELSE IF v[n] = 1 THEN n
    ELSE BitLengthUpTo(v, n - 1)

BitLength(v) == Eval(v, LAMBDA x : BitLengthUpTo(x, Len(x)))

OverflowError == [err |-> "OverflowError", bytes |-> <<>>]

\* int.to_bytes(length, byteorder='little')
int_to_bytes(v, length) ==
    Eval(v, LAMBDA x :
        IF x = NegInt \/ BitLength(x) > 8 * length THEN OverflowError
        ELSE [err |-> "none",
              bytes |-> [k \in 1..length |->
                            BitsValue([i \in 1..8 |-> Bit(x, 8 * (k - 1) + i)])]])

\* int.from_bytes(bytes, byteorder='little')
int_from_bytes(bytes) ==
    Eval(bytes, LAMBDA x :
        [i \in 1..(8 * Len(x)) |->
            (x[((i - 1) \div 8) + 1] \div PowersOf2[((i - 1) % 8) + 1]) % 2])

\* bytes[lo:hi] for 0 <= lo, with Python's clipping of a slice to the buffer
Slice(bytes, lo, hi) ==
    IF lo >= Min(hi, Len(bytes)) THEN <<>> ELSE SubSeq(bytes, lo + 1, Min(hi, Len(bytes)))

----------------------------------------------------------------------------
(* assembler.py: the instruction classes *)

ValueError == [cls |-> "ValueError"]
None == [cls |-> "None"]

\* a faulty LoadConstInstruction.__init__: the constant 2^11 is accepted
LoadConstInstruction_inclusive(constant, address) ==
    IF ~(0 <= constant /\ constant <= 2048) THEN ValueError
    ELSE IF ~(0 <= address /\ address < 67108864) THEN ValueError
    ELSE [cls |-> "LoadConstInstruction", opcode |-> 111,
          constant |-> constant, address |-> address]

\* LoadConstInstruction.__init__
LoadConstInstruction(constant, address) ==
    IF ~(0 <= constant /\ constant < 2048) THEN ValueError
    ELSE IF ~(0 <= address /\ address < 67108864) THEN ValueError
    ELSE [cls |-> "LoadConstInstruction", opcode |-> 111,
          constant |-> constant, address |-> address]

\* ReadMemInstruction.__init__
ReadMemInstruction(offset, src_addr, dst_addr) ==
    IF ~(0 <= offset /\ offset < 256) THEN ValueError
    ELSE IF ~(0 <= src_addr /\ src_addr < 67108864) THEN ValueError
    ELSE IF ~(0 <= dst_addr /\ dst_addr < 67108864) THEN ValueError
    ELSE [cls |-> "ReadMemInstruction", opcode |-> 40,
          offset |-> offset, src_addr |-> src_addr, dst_addr |-> dst_addr]

\* WriteMemInstruction.__init__
WriteMemInstruction(src_addr, dst_addr) ==
    IF ~(0 <= src_addr /\ src_addr < 67108864) THEN ValueError
    ELSE IF ~(0 <= dst_addr /\ dst_addr < 67108864) THEN ValueError
    ELSE [cls |-> "WriteMemInstruction", opcode |-> 101,
          src_addr |-> src_addr, dst_addr |-> dst_addr]

\* GTEInstruction.__init__
GTEInstruction(offset1, addr1, addr2, res_addr, offset2) ==
    IF ~(0 <= offset1 /\ offset1 < 256) THEN ValueError
    ELSE IF ~(0 <= offset2 /\ offset2 < 256) THEN ValueError
    ELSE IF ~(0 <= addr1 /\ addr1 < 67108864) THEN ValueError
    ELSE IF ~(0 <= addr2 /\ addr2 < 67108864) THEN ValueError
    ELSE IF ~(0 <= res_addr /\ res_addr < 67108864) THEN ValueError
    ELSE [cls |-> "GTEInstruction", opcode |-> 68,
          offset1 |-> offset1, addr1 |-> addr1, addr2 |-> addr2,
          res_addr |-> res_addr, offset2 |-> offset2]

\* LoadConstInstruction.to_bytes
LoadConst_to_bytes(self) ==
    int_to_bytes(BitOr(BitOr(PyInt(self.opcode), Shl(PyInt(self.constant), 7)),
                       Shl(PyInt(self.address), 18)), 6)

\* ReadMemInstruction.to_bytes
ReadMem_to_bytes(self) ==
    int_to_bytes(BitOr(BitOr(BitOr(PyInt(self.opcode), Shl(PyInt(self.offset), 7)),
                             Shl(PyInt(self.src_addr), 15)),
                       Shl(PyInt(self.dst_addr), 41)), 9)

\* a faulty WriteMemInstruction.to_bytes: seven bytes for the 59 bits
WriteMem_to_bytes_7(self) ==
    int_to_bytes(BitOr(BitOr(PyInt(self.opcode), Shl(PyInt(self.src_addr), 7)),
                       Shl(PyInt(self.dst_addr), 33)), 7)

\* WriteMemInstruction.to_bytes
WriteMem_to_bytes(self) ==
    int_to_bytes(BitOr(BitOr(PyInt(self.opcode), Shl(PyInt(self.src_addr), 7)),
                       Shl(PyInt(self.dst_addr), 33)), 8)

\* a faulty GTEInstruction.to_bytes: offset2 is placed one bit low, over res_addr
GTE_to_bytes_overlapping(self) ==
    int_to_bytes(BitOr(BitOr(BitOr(BitOr(BitOr(PyInt(self.opcode),
                                               Shl(PyInt(self.offset1), 7)),
                                         Shl(PyInt(self.addr1), 15)),
                                   Shl(PyInt(self.addr2), 41)),
                             Shl(PyInt(self.res_addr), 67)),
                       Shl(PyInt(self.offset2), 92)), 13)

\* GTEInstruction.to_bytes
GTE_to_bytes(self) ==
    int_to_bytes(BitOr(BitOr(BitOr(BitOr(BitOr(PyInt(self.opcode),
                                               Shl(PyInt(self.offset1), 7)),
                                         Shl(PyInt(self.addr1), 15)),
                                   Shl(PyInt(self.addr2), 41)),
                             Shl(PyInt(self.res_addr), 67)),
                       Shl(PyInt(self.offset2), 93)), 13)

\* instr.to_bytes(): the method of the instruction's class
to_bytes(instr) ==
    CASE instr.cls = "LoadConstInstruction" -> LoadConst_to_bytes(instr)
      [] instr.cls = "ReadMemInstruction" -> ReadMem_to_bytes(instr)
      [] instr.cls = "WriteMemInstruction" -> WriteMem_to_bytes(instr)
      [] instr.cls = "GTEInstruction" -> GTE_to_bytes(instr)

----------------------------------------------------------------------------
(* assembler.py: the Assembler *)

\* A line is modelled after the comment is cut and the rest is split: its
\* first token and the remaining tokens, each argument token a sequence of
\* characters.  A blank or comment-only line has no tokens.
BlankLine == [mnemonic |-> "", args |-> <<>>]

Digits == <<"0", "1", "2", "3", "4", "5", "6", "7", "8", "9">>

DigitValue(c) == CHOOSE d \in 0..9 : Digits[d + 1] = c

IsDigit(c) == \E d \in 0..9 : Digits[d + 1] = c

RECURSIVE DigitsValue(_)
DigitsValue(s) ==
    IF s = <<>> THEN 0 ELSE 10 * DigitsValue(SubSeq(s, 1, Len(s) - 1)) + DigitValue(s[Len(s)])

\* int(token), for tokens over the digits, "-" and letters
int(token) ==
    LET body == IF token # <<>> /\ token[1] = "-" THEN Tail(token) ELSE token
    IN  IF body = <<>> \/ \E i \in 1..Len(body) : ~IsDigit(body[i])
        THEN [err |-> "ValueError", value |-> 0]
        ELSE [err |-> "none",
              value |-> IF token[1] = "-" THEN 0 - DigitsValue(body) ELSE DigitsValue(body)]

\* str.upper() of the first token
upper(s) ==
    CASE s = "load_const" -> "LOAD_CONST"
      [] s = "Read_Mem" -> "READ_MEM"
      [] s = "write_mem" -> "WRITE_MEM"
      [] s = "gte" -> "GTE"
      [] s = "jmp" -> "JMP"
      [] OTHER -> s

\* Assembler.parse_line
parse_line(line) ==
    IF line.mnemonic = "" THEN None
    ELSE
    LET mnemonic == upper(line.mnemonic)
        args == line.args
        bad == \E i \in 1..Len(args) : int(args[i]).err # "none"
        a(i) == int(args[i]).value
    IN  CASE mnemonic = "LOAD_CONST" ->
               IF Len(args) # 2 \/ bad THEN ValueError
               ELSE LoadConstInstruction(a(1), a(2))
          [] mnemonic = "READ_MEM" ->
               IF Len(args) # 3 \/ bad THEN ValueError
               ELSE ReadMemInstruction(a(1), a(2), a(3))
          [] mnemonic = "WRITE_MEM" ->
               IF Len(args) # 2 \/ bad THEN ValueError
               ELSE WriteMemInstruction(a(1), a(2))
          [] mnemonic = "GTE" ->
               IF Len(args) # 5 \/ bad THEN ValueError
               ELSE GTEInstruction(a(1), a(2), a(3), a(4), a(5))
          [] OTHER -> ValueError

\* Assembler.assemble: the loop over the lines, from line i with the
\* instructions appended so far; a ValueError leaves self.instructions as
\* they were when it was raised
RECURSIVE assemble_from(_, _, _)
assemble_from(src, i, acc) ==
    IF i > Len(src) THEN [err |-> "none", instructions |-> acc]
    ELSE LET instr == parse_line(src[i])
         IN  IF instr = ValueError THEN [err |-> "ValueError", instructions |-> acc]
             ELSE IF instr = None THEN assemble_from(src, i + 1, acc)
             ELSE assemble_from(src, i + 1, Append(acc, instr))

\* Assembler.assemble
assemble(src) == assemble_from(src, 1, <<>>)

\* Assembler.to_binary
RECURSIVE to_binary(_)
\* a faulty to_binary: every encoding is put before the bytes so far
to_binary_reversed(instrs) ==
    IF instrs = <<>> THEN [err |-> "none", bytes |-> <<>>]
    ELSE LET head == to_binary(SubSeq(instrs, 1, Len(instrs) - 1))
             last == to_bytes(instrs[Len(instrs)])
         IN  IF head.err # "none" THEN head
             ELSE IF last.err # "none" THEN last
             ELSE [err |-> "none", bytes |-> last.bytes \o head.bytes]

to_binary(instrs) ==
    IF instrs = <<>> THEN [err |-> "none", bytes |-> <<>>]
    ELSE LET head == to_binary(SubSeq(instrs, 1, Len(instrs) - 1))
             last == to_bytes(instrs[Len(instrs)])
         IN  IF head.err # "none" THEN head
             ELSE IF last.err # "none" THEN last
             ELSE [err |-> "none", bytes |-> head.bytes \o last.bytes]

----------------------------------------------------------------------------
(* interpreter.py: the VirtualMachine *)

\* a faulty read_bits: end_byte leaves out the byte a field ends in
read_bits_short(code, at, start_bit, length) ==
    LET start_byte == start_bit \div 8
        end_byte == (start_bit + length) \div 8
        bytes_to_read == Slice(code, at + start_byte, at + end_byte)
        value == int_from_bytes(bytes_to_read)
        bit_offset == start_bit % 8
    IN  BitsValue(AndMask(Shr(value, bit_offset), length))

\* VirtualMachine.read_bits, with self.code_memory and self.pc as arguments
read_bits(code, at, start_bit, length) ==
    LET start_byte == start_bit \div 8
        end_byte == ((start_bit + length - 1) \div 8) + 1
        bytes_to_read == Slice(code, at + start_byte, at + end_byte)
        value == int_from_bytes(bytes_to_read)
        bit_offset == start_bit % 8
    IN  BitsValue(AndMask(Shr(value, bit_offset), length))

\* self.data_memory[i] raises IndexError unless -len <= i < len
index_ok(mem, i) == 0 - memory_size <= i /\ i < memory_size

\* the cell self.data_memory[i] names: a negative index counts from the end
cell(i) == IF i < 0 THEN i + memory_size ELSE i

getitem(mem, i) == mem[cell(i)]

setitem(mem, i, v) == [mem EXCEPT ![cell(i)] = v]

NoFields == <<>>
NoResult == <<>>

\* what a call of step() leaves behind: the exception it raised if any, the
\* machine's pc and data memory, the value returned, the fields decoded
Raised(exc, at, mem, f) ==
    [error |-> exc, pc |-> at, data_memory |-> mem, result |-> NoResult, fields |-> f]

Returned(at, mem, res, f) ==
    [error |-> "none", pc |-> at, data_memory |-> mem, result |-> res, fields |-> f]

\* a faulty execute_load_const: PC is left where it was
execute_load_const_stay(code, at, mem) ==
    LET opcode == read_bits(code, at, 0, 7)
        constant == read_bits(code, at, 7, 11)
        address == read_bits(code, at, 18, 26)
        f == <<opcode, constant, address>>
    IN  IF ~index_ok(mem, address) THEN Raised("IndexError", at, mem, f)
        ELSE Returned(at, setitem(mem, address, constant),
                      <<"LOAD_CONST", address, constant>>, f)

\* a faulty execute_load_const: the constant is read one bit too wide
execute_load_const_wide(code, at, mem) ==
    LET opcode == read_bits(code, at, 0, 7)
        constant == read_bits(code, at, 7, 12)
        address == read_bits(code, at, 18, 26)
        f == <<opcode, constant, address>>
    IN  IF ~index_ok(mem, address) THEN Raised("IndexError", at, mem, f)
        ELSE Returned(at + 6, setitem(mem, address, constant),
                      <<"LOAD_CONST", address, constant>>, f)

\* VirtualMachine.execute_load_const
execute_load_const(code, at, mem) ==
    LET opcode == read_bits(code, at, 0, 7)
        constant == read_bits(code, at, 7, 11)
        address == read_bits(code, at, 18, 26)
        f == <<opcode, constant, address>>
    IN  IF ~index_ok(mem, address) THEN Raised("IndexError", at, mem, f)
        ELSE Returned(at + 6, setitem(mem, address, constant),
                      <<"LOAD_CONST", address, constant>>, f)

\* a faulty execute_read_mem: the source is read directly at src_addr + offset
execute_read_mem_direct(code, at, mem) ==
    LET opcode == read_bits(code, at, 0, 7)
        offset == read_bits(code, at, 7, 8)
        src_addr == read_bits(code, at, 15, 26)
        dst_addr == read_bits(code, at, 41, 26)
        f == <<opcode, offset, src_addr, dst_addr>>
        effective_addr == src_addr + offset
    IN  IF ~index_ok(mem, effective_addr) THEN Raised("IndexError", at, mem, f)
        ELSE
        LET value == getitem(mem, effective_addr)
        IN  IF ~index_ok(mem, dst_addr) THEN Raised("IndexError", at, mem, f)
            ELSE Returned(at + 9, setitem(mem, dst_addr, value),
                          <<"READ_MEM", dst_addr, src_addr, offset, effective_addr, value>>, f)

\* a faulty execute_read_mem: an effective address past the memory wraps around
execute_read_mem_wrapping(code, at, mem) ==
    LET opcode == read_bits(code, at, 0, 7)
        offset == read_bits(code, at, 7, 8)
        src_addr == read_bits(code, at, 15, 26)
        dst_addr == read_bits(code, at, 41, 26)
        f == <<opcode, offset, src_addr, dst_addr>>
    IN  IF ~index_ok(mem, src_addr) THEN Raised("IndexError", at, mem, f)
        ELSE
        LET effective_addr == (getitem(mem, src_addr) + offset) % memory_size
            value == getitem(mem, effective_addr)
        IN  IF ~index_ok(mem, dst_addr) THEN Raised("IndexError", at, mem, f)
            ELSE Returned(at + 9, setitem(mem, dst_addr, value),
                          <<"READ_MEM", dst_addr, src_addr, offset, effective_addr, value>>, f)

\* a faulty execute_read_mem: PC is moved on before the memory is accessed
execute_read_mem_torn(code, at, mem) ==
    LET opcode == read_bits(code, at, 0, 7)
        offset == read_bits(code, at, 7, 8)
        src_addr == read_bits(code, at, 15, 26)
        dst_addr == read_bits(code, at, 41, 26)
        f == <<opcode, offset, src_addr, dst_addr>>
    IN  IF ~index_ok(mem, src_addr) THEN Raised("IndexError", at + 9, mem, f)
        ELSE
        LET effective_addr == getitem(mem, src_addr) + offset
        IN  IF ~index_ok(mem, effective_addr) THEN Raised("IndexError", at + 9, mem, f)
            ELSE
            LET value == getitem(mem, effective_addr)
            IN  IF ~index_ok(mem, dst_addr) THEN Raised("IndexError", at + 9, mem, f)
                ELSE Returned(at + 9, setitem(mem, dst_addr, value),
                              <<"READ_MEM", dst_addr, src_addr, offset, effective_addr, value>>, f)

\* VirtualMachine.execute_read_mem
execute_read_mem(code, at, mem) ==
    LET opcode == read_bits(code, at, 0, 7)
        offset == read_bits(code, at, 7, 8)
        src_addr == read_bits(code, at, 15, 26)
        dst_addr == read_bits(code, at, 41, 26)
        f == <<opcode, offset, src_addr, dst_addr>>
    IN  IF ~index_ok(mem, src_addr) THEN Raised("IndexError", at, mem, f)
        ELSE
        LET effective_addr == getitem(mem, src_addr) + offset
        IN  IF ~index_ok(mem, effective_addr) THEN Raised("IndexError", at, mem, f)
            ELSE
            LET value == getitem(mem, effective_addr)
            IN  IF ~index_ok(mem, dst_addr) THEN Raised("IndexError", at, mem, f)
                ELSE Returned(at + 9, setitem(mem, dst_addr, value),
                              <<"READ_MEM", dst_addr, src_addr, offset, effective_addr, value>>, f)

\* a faulty execute_write_mem: the copy goes from dst_addr to src_addr
execute_write_mem_backwards(code, at, mem) ==
    LET opcode == read_bits(code, at, 0, 7)
        src_addr == read_bits(code, at, 7, 26)
        dst_addr == read_bits(code, at, 33, 26)
        f == <<opcode, src_addr, dst_addr>>
    IN  IF ~index_ok(mem, dst_addr) THEN Raised("IndexError", at, mem, f)
        ELSE
        LET value == getitem(mem, dst_addr)
        IN  IF ~index_ok(mem, src_addr) THEN Raised("IndexError", at, mem, f)
            ELSE Returned(at + 8, setitem(mem, src_addr, value),
                          <<"WRITE_MEM", dst_addr, src_addr, value>>, f)

\* a faulty execute_write_mem: PC moves on by the length of READ_MEM
execute_write_mem_pc9(code, at, mem) ==
    LET opcode == read_bits(code, at, 0, 7)
        src_addr == read_bits(code, at, 7, 26)
        dst_addr == read_bits(code, at, 33, 26)
        f == <<opcode, src_addr, dst_addr>>
    IN  IF ~index_ok(mem, src_addr) THEN Raised("IndexError", at, mem, f)
        ELSE
        LET value == getitem(mem, src_addr)
        IN  IF ~index_ok(mem, dst_addr) THEN Raised("IndexError", at, mem, f)
            ELSE Returned(at + 9, setitem(mem, dst_addr, value),
                          <<"WRITE_MEM", dst_addr, src_addr, value>>, f)

\* VirtualMachine.execute_write_mem
execute_write_mem(code, at, mem) ==
    LET opcode == read_bits(code, at, 0, 7)
        src_addr == read_bits(code, at, 7, 26)
        dst_addr == read_bits(code, at, 33, 26)
        f == <<opcode, src_addr, dst_addr>>
    IN  IF ~index_ok(mem, src_addr) THEN Raised("IndexError", at, mem, f)
        ELSE
        LET value == getitem(mem, src_addr)
        IN  IF ~index_ok(mem, dst_addr) THEN Raised("IndexError", at, mem, f)
            ELSE Returned(at + 8, setitem(mem, dst_addr, value),
                          <<"WRITE_MEM", dst_addr, src_addr, value>>, f)

\* a faulty execute_gte: the comparison is > instead of >=
execute_gte_strict(code, at, mem) ==
    LET opcode == read_bits(code, at, 0, 7)
        offset1 == read_bits(code, at, 7, 8)
        addr1 == read_bits(code, at, 15, 26)
        addr2 == read_bits(code, at, 41, 26)
        res_addr == read_bits(code, at, 67, 26)
        offset2 == read_bits(code, at, 93, 8)
        f == <<opcode, offset1, addr1, addr2, res_addr, offset2>>
    IN  IF ~index_ok(mem, addr1) \/ ~index_ok(mem, res_addr) THEN Raised("IndexError", at, mem, f)
        ELSE
        LET effective_addr1 == getitem(mem, addr1) + offset1
            effective_res_addr == getitem(mem, res_addr) + offset2
        IN  IF ~index_ok(mem, effective_addr1) \/ ~index_ok(mem, addr2)
            THEN Raised("IndexError", at, mem, f)
            ELSE
            LET operand1 == getitem(mem, effective_addr1)
                operand2 == getitem(mem, addr2)
                res == IF operand1 > operand2 THEN 1 ELSE 0
            IN  IF ~index_ok(mem, effective_res_addr) THEN Raised("IndexError", at, mem, f)
                ELSE Returned(at + 13, setitem(mem, effective_res_addr, res),
                              <<"GTE", effective_res_addr, operand1, operand2, res>>, f)

\* VirtualMachine.execute_gte
execute_gte(code, at, mem) ==
    LET opcode == read_bits(code, at, 0, 7)
        offset1 == read_bits(code, at, 7, 8)
        addr1 == read_bits(code, at, 15, 26)
        addr2 == read_bits(code, at, 41, 26)
        res_addr == read_bits(code, at, 67, 26)
        offset2 == read_bits(code, at, 93, 8)
        f == <<opcode, offset1, addr1, addr2, res_addr, offset2>>
    IN  IF ~index_ok(mem, addr1) \/ ~index_ok(mem, res_addr) THEN Raised("IndexError", at, mem, f)
        ELSE
        LET effective_addr1 == getitem(mem, addr1) + offset1
            effective_res_addr == getitem(mem, res_addr) + offset2
        IN  IF ~index_ok(mem, effective_addr1) \/ ~index_ok(mem, addr2)
            THEN Raised("IndexError", at, mem, f)
            ELSE
            LET operand1 == getitem(mem, effective_addr1)
                operand2 == getitem(mem, addr2)
                res == IF operand1 >= operand2 THEN 1 ELSE 0
            IN  IF ~index_ok(mem, effective_res_addr) THEN Raised("IndexError", at, mem, f)
                ELSE Returned(at + 13, setitem(mem, effective_res_addr, res),
                              <<"GTE", effective_res_addr, operand1, operand2, res>>, f)

\* a faulty step: an unknown opcode is skipped as a one-byte instruction
step_skipping(code, at, mem) ==
    IF at >= Len(code) THEN Returned(at, mem, NoResult, NoFields)
    ELSE LET opcode == read_bits(code, at, 0, 7)
         IN  CASE opcode = 111 -> execute_load_const(code, at, mem)
               [] opcode = 40 -> execute_read_mem(code, at, mem)
               [] opcode = 101 -> execute_write_mem(code, at, mem)
               [] opcode = 68 -> execute_gte(code, at, mem)
               [] OTHER -> Returned(at + 1, mem, <<"SKIP", opcode>>, <<opcode>>)

\* a faulty step: at the end of the program the machine goes back to its start
step_restarting(code, at, mem) ==
    IF at >= Len(code) THEN Returned(0, mem, NoResult, NoFields)
    ELSE LET opcode == read_bits(code, at, 0, 7)
         IN  CASE opcode = 111 -> execute_load_const(code, at, mem)
               [] opcode = 40 -> execute_read_mem(code, at, mem)
               [] opcode = 101 -> execute_write_mem(code, at, mem)
               [] opcode = 68 -> execute_gte(code, at, mem)
               [] OTHER -> Raised("ValueError", at, mem, <<opcode>>)

\* VirtualMachine.step
step(code, at, mem) ==
    IF at >= Len(code) THEN Returned(at, mem, NoResult, NoFields)
    ELSE LET opcode == read_bits(code, at, 0, 7)
         IN  CASE opcode = 111 -> execute_load_const(code, at, mem)
               [] opcode = 40 -> execute_read_mem(code, at, mem)
               [] opcode = 101 -> execute_write_mem(code, at, mem)
               [] opcode = 68 -> execute_gte(code, at, mem)
               [] OTHER -> Raised("ValueError", at, mem, <<opcode>>)

\* run: if verbose: print(f"... {step_count}: {result}"), after step_count += 1;
\* put after a step that returned None: the count print that follows the loop
print_step(out, verb, count, r) ==
    IF r.error # "none" \/ ~verb THEN out
    ELSE IF r.result = NoResult THEN Append(out, <<"total", count>>)
    ELSE Append(out, <<"step", count + 1, r.result>>)

\* run: if verbose: print(f"... {step_count} ...") after the loop
print_total(out, verb, count) == IF verb THEN Append(out, <<"total", count>>) ELSE out

\* no dump has been asked for
NoDump == [err |-> "none", range |-> <<>>, cells |-> <<>>]

----------------------------------------------------------------------------
(* The inputs *)

\* str(n): the decimal token of an integer
RECURSIVE NatStr(_)
NatStr(n) == IF n < 10 THEN <<Digits[n + 1]>> ELSE NatStr(n \div 10) \o <<Digits[(n % 10) + 1]>>

Str(n) == IF n < 0 THEN <<"-">> \o NatStr(0 - n) ELSE NatStr(n)

Line(mnemonic, ints) == [mnemonic |-> mnemonic, args |-> [i \in 1..Len(ints) |-> Str(ints[i])]]

\* the lines a source program is made of
ValidLines ==
    { Line("LOAD_CONST", <<5, 0>>), Line("LOAD_CONST", <<10, 1>>),
      Line("LOAD_CONST", <<42, 3>>), Line("load_const", <<1, memory_size>>),
      Line("GTE", <<0, 0, 1, 2, 0>>), Line("gte", <<1, 0, 1, 2, 3>>),
      Line("READ_MEM", <<2, 0, 6>>), Line("Read_Mem", <<255, 3, 6>>),
      Line("WRITE_MEM", <<3, 4>>), BlankLine }

InvalidLines ==
    { Line("LOAD_CONST", <<2048, 0>>), Line("jmp", <<1>>), Line("write_mem", <<3>>),
      [mnemonic |-> "READ_MEM", args |-> << <<"x">>, <<"0">>, <<"6">> >>] }

Lines == ValidLines \cup InvalidLines

\* two programs of other constants
ScenarioB ==
    <<Line("LOAD_CONST", <<10, 0>>), Line("LOAD_CONST", <<5, 1>>), Line("GTE", <<0, 0, 1, 2, 0>>)>>

ScenarioC ==
    <<Line("LOAD_CONST", <<7, 0>>), Line("LOAD_CONST", <<3, 5>>), Line("READ_MEM", <<2, 0, 6>>)>>

ScenarioA ==
    <<Line("LOAD_CONST", <<5, 0>>), Line("LOAD_CONST", <<10, 1>>), Line("GTE", <<0, 0, 1, 2, 0>>)>>

ScenarioD == <<Line("LOAD_CONST", <<42, 3>>), Line("WRITE_MEM", <<3, 4>>)>>

Programs == UNION { [1..n -> Lines] : n \in 0..MaxProg } \cup {ScenarioB, ScenarioC}

\* operands at and around the ends of each field's range
ConstantValues == {-1, 0, 2046, 2047, 2048}
OffsetValues == {-1, 0, 254, 255, 256}
AddressValues == {-1, 0, 67108862, 67108863, 67108864}

BoundaryLines ==
    { Line("LOAD_CONST", <<c, a>>) : c \in ConstantValues, a \in AddressValues }
    \cup { Line("READ_MEM", <<o, a, b>>) : o \in OffsetValues, a \in AddressValues, b \in AddressValues }
    \cup { Line("WRITE_MEM", <<a, b>>) : a \in AddressValues, b \in AddressValues }
    \cup { Line("GTE", <<o, a, b, c, p>>) : o \in OffsetValues, a \in AddressValues,
              b \in AddressValues, c \in AddressValues, p \in OffsetValues }

\* a boundary line alone, after another instruction, before another one
BoundaryPrograms ==
    { pre \o <<l>> \o post :
        pre \in { <<>>, <<Line("LOAD_CONST", <<5, 0>>)>>, <<Line("GTE", <<0, 0, 1, 2, 0>>)>> },
        l \in BoundaryLines,
        post \in { <<>>, <<Line("WRITE_MEM", <<3, 4>>)>> } }

\* the offset of instruction k (from 1) in the binary of instrs
RECURSIVE Offset(_, _)
Offset(instrs, k) ==
    IF k <= 1 THEN 0 ELSE Offset(instrs, k - 1) + Len(to_bytes(instrs[k - 1]).bytes)

\* bytes that are the opcode of no instruction (0) or of another one (40, 111)
BadBytes == {0, 40, 111}

\* the byte strings the interpreter may be given in place of the file: the
\* file, the file less its last bytes, the file with the first byte of one
\* instruction overwritten
Binaries(file, instrs) ==
    { SubSeq(file, 1, Len(file) - cut) : cut \in 0..Min(MaxCut, Len(file)) }
    \cup { [file EXCEPT ![Offset(instrs, k) + 1] = b] : k \in 1..Len(instrs), b \in BadBytes }

----------------------------------------------------------------------------
(* The state machine *)

\* the state after the constructors Assembler() and VirtualMachine(memory_size)
Constructed ==
    /\ asm_pc = "start"
    /\ instructions = <<>>
    /\ out_file = <<>>
    /\ vm_pc = "new"
    /\ code_memory = <<>>
    /\ pc = 0
    /\ data_memory = [i \in 0..(memory_size - 1) |-> 0]
    /\ step_count = 0
    /\ result = NoResult
    /\ fields = NoFields
    /\ error = "none"
    /\ stdout = <<>>
    /\ dump = NoDump
    /\ calls = 0

\* interpreter main: vm.run(verbose=True)
Init == source \in Programs /\ verbose = TRUE /\ Constructed

\* assembler main: assembler.assemble(source), exit(1) on a ValueError
Assemble ==
    /\ asm_pc = "start"
    /\ \E r \in {assemble(source)} :
           /\ instructions' = r.instructions
           /\ asm_pc' = IF r.err = "none" THEN "assembled" ELSE "failed"
    /\ UNCHANGED <<source, out_file, vm_pc, code_memory, pc, data_memory,
                   step_count, result, fields, error,
                   verbose, stdout, dump, calls>>

\* assembler main: binary = assembler.to_binary(); f.write(binary)
WriteBinary ==
    /\ asm_pc = "assembled"
    /\ \E b \in {to_binary(instructions)} :
           /\ out_file' = b.bytes
           /\ asm_pc' = IF b.err = "none" THEN "written" ELSE "crashed"
    /\ UNCHANGED <<source, instructions, vm_pc, code_memory, pc, data_memory,
                   step_count, result, fields, error,
                   verbose, stdout, dump, calls>>

\* interpreter main: vm.load_program(binary_code)
LoadProgram ==
    /\ asm_pc = "written"
    /\ vm_pc = "new"
    /\ \E binary_code \in Binaries(out_file, instructions) :
          code_memory' = binary_code
    /\ pc' = 0
    /\ vm_pc' = "loaded"
    /\ UNCHANGED <<source, asm_pc, instructions, out_file, data_memory,
                   step_count, result, fields, error,
                   verbose, stdout, dump, calls>>

\* VirtualMachine.run: entry
Run ==
    /\ vm_pc = "loaded"
    /\ vm_pc' = "running"
    /\ step_count' = 0
    /\ UNCHANGED <<source, asm_pc, instructions, out_file, code_memory, pc,
                   data_memory, result, fields, error,
                   verbose, stdout, dump, calls>>

\* a faulty run: with verbose, step() is called once more to make the trace
RunStep_traced ==
    /\ vm_pc = "running"
    /\ pc < Len(code_memory)
    /\ \E r0 \in {step(code_memory, pc, data_memory)} :
       \E r \in {IF verbose /\ r0.error = "none"
                  THEN step(code_memory, r0.pc, r0.data_memory) ELSE r0} :
           /\ pc' = r.pc
           /\ data_memory' = r.data_memory
           /\ result' = r.result
           /\ fields' = r.fields
           /\ error' = r.error
           /\ vm_pc' = IF r.error # "none" THEN "raised"
                       ELSE IF r.result = NoResult THEN "done"
                       ELSE "running"
           /\ step_count' = IF r.error # "none" \/ r.result = NoResult
                            THEN step_count ELSE step_count + 1
           /\ stdout' = print_step(stdout, verbose, step_count, r)
    /\ UNCHANGED <<source, asm_pc, instructions, out_file, code_memory,
                   verbose, dump, calls>>

\* VirtualMachine.run: one iteration of the while loop, calling step()
RunStep ==
    /\ vm_pc = "running"
    /\ pc < Len(code_memory)
    /\ \E r \in {step(code_memory, pc, data_memory)} :
           /\ pc' = r.pc
           /\ data_memory' = r.data_memory
           /\ result' = r.result
           /\ fields' = r.fields
           /\ error' = r.error
           /\ vm_pc' = IF r.error # "none" THEN "raised"
                       ELSE IF r.result = NoResult THEN "done"
                       ELSE "running"
           /\ step_count' = IF r.error # "none" \/ r.result = NoResult
                            THEN step_count ELSE step_count + 1
           /\ stdout' = print_step(stdout, verbose, step_count, r)
    /\ UNCHANGED <<source, asm_pc, instructions, out_file, code_memory,
                   verbose, dump, calls>>

\* VirtualMachine.run: the while condition fails
RunExit ==
    /\ vm_pc = "running"
    /\ pc >= Len(code_memory)
    /\ vm_pc' = "done"
    /\ stdout' = print_total(stdout, verbose, step_count)
    /\ UNCHANGED <<source, asm_pc, instructions, out_file, code_memory, pc,
                   data_memory, step_count, result, fields, error,
                   verbose, dump, calls>>

Next == Assemble \/ WriteBinary \/ LoadProgram \/ Run \/ RunStep \/ RunExit

Spec == Init /\ [][Next]_vars

\* the same programs run on sources of boundary operands
InitCodec == source \in BoundaryPrograms /\ verbose = TRUE /\ Constructed

SpecCodec == InitCodec /\ [][Next]_vars

----------------------------------------------------------------------------
(* The machine driven beyond main: step(), run() and load_program() called *)
(* again on a machine whose run has ended, and the memory dump             *)

\* how many such calls are followed
MaxCalls == 2

\* dump_memory_xml, for addr in range(addr, end_addr + 1): the cells listed
RECURSIVE dump_cells(_, _, _, _)
dump_cells(mem, addr, end_addr, cells) ==
    IF addr > end_addr THEN [err |-> "none", cells |-> cells]
    ELSE IF addr < memory_size
         THEN IF ~index_ok(mem, addr) THEN [err |-> "IndexError", cells |-> <<>>]
              ELSE dump_cells(mem, addr + 1, end_addr, Append(cells, <<addr, getitem(mem, addr)>>))
         ELSE dump_cells(mem, addr + 1, end_addr, cells)

\* VirtualMachine.dump_memory_xml: the cell elements of the file written, or
\* the exception raised before anything was written
dump_memory_xml(mem, start_addr, end_addr) ==
    Eval(dump_cells(mem, start_addr, end_addr, <<>>),
         LAMBDA d : [err |-> d.err, range |-> <<start_addr, end_addr>>, cells |-> d.cells])

\* interpreter main: start_addr, end_addr = int(sys.argv[3]), int(sys.argv[4])
DumpRanges ==
    { <<0, 2>>, <<3, 1>>, <<-1, 1>>, <<memory_size - 2, memory_size + 1>>,
      <<0 - memory_size - 1, 0 - memory_size + 1>>, <<memory_size, memory_size + 2>> }

\* interpreter main: vm.dump_memory_xml(output_xml, start_addr, end_addr)
DumpMemory ==
    /\ vm_pc = "done"
    /\ \E rng \in DumpRanges : dump' = dump_memory_xml(data_memory, rng[1], rng[2])
    /\ vm_pc' = "dumped"
    /\ UNCHANGED <<source, asm_pc, instructions, out_file, code_memory, pc, data_memory,
                   step_count, result, fields, error, verbose, stdout, calls>>

\* VirtualMachine.step, called on a machine whose run has ended
Step ==
    /\ vm_pc = "done"
    /\ calls < MaxCalls
    /\ calls' = calls + 1
    /\ \E r \in {step(code_memory, pc, data_memory)} :
           /\ pc' = r.pc
           /\ data_memory' = r.data_memory
           /\ result' = r.result
           /\ fields' = r.fields
           /\ error' = r.error
           /\ vm_pc' = IF r.error # "none" THEN "raised" ELSE "done"
    /\ UNCHANGED <<source, asm_pc, instructions, out_file, code_memory, step_count,
                   verbose, stdout, dump>>

\* VirtualMachine.run: entry, on a machine whose run has ended
RunAgain ==
    /\ vm_pc = "done"
    /\ calls < MaxCalls
    /\ calls' = calls + 1
    /\ vm_pc' = "running"
    /\ step_count' = 0
    /\ UNCHANGED <<source, asm_pc, instructions, out_file, code_memory, pc,
                   data_memory, result, fields, error, verbose, stdout, dump>>

\* a faulty load_program: PC stays where the last run left it
Reload_keeping_pc ==
    /\ vm_pc = "done"
    /\ calls < MaxCalls
    /\ calls' = calls + 1
    /\ \E binary_code \in Binaries(out_file, instructions) :
          code_memory' = binary_code
    /\ vm_pc' = "loaded"
    /\ UNCHANGED <<source, asm_pc, instructions, out_file, pc, data_memory,
                   step_count, result, fields, error, verbose, stdout, dump>>

\* VirtualMachine.load_program, on a machine whose run has ended
Reload ==
    /\ vm_pc = "done"
    /\ calls < MaxCalls
    /\ calls' = calls + 1
    /\ \E binary_code \in Binaries(out_file, instructions) :
          code_memory' = binary_code
    /\ pc' = 0
    /\ vm_pc' = "loaded"
    /\ UNCHANGED <<source, asm_pc, instructions, out_file, data_memory,
                   step_count, result, fields, error, verbose, stdout, dump>>

\* a constant at the top of its range read back through the largest offset
FarRead == <<Line("LOAD_CONST", <<2047, 0>>), Line("READ_MEM", <<255, 0, 1>>)>>

\* a valid line before an invalid one
HalfValid == <<Line("LOAD_CONST", <<5, 0>>), Line("jmp", <<1>>)>>

APIPrograms ==
    { <<>>, ScenarioA, ScenarioB, ScenarioC, ScenarioD, FarRead, HalfValid,
      <<Line("load_const", <<1, memory_size>>)>>,
      <<Line("GTE", <<0, 0, 1, 2, 0>>), Line("WRITE_MEM", <<3, 4>>)>>,
      <<Line("gte", <<1, 0, 1, 2, 3>>), BlankLine, Line("LOAD_CONST", <<2048, 0>>)>> }

InitAPI == source \in APIPrograms /\ verbose \in BOOLEAN /\ Constructed

NextAPI == Next \/ Step \/ RunAgain \/ Reload \/ DumpMemory

SpecAPI == InitAPI /\ [][NextAPI]_vars

----------------------------------------------------------------------------
(* Vocabulary of the properties: the layout table of the instruction set *)

\* the opcode and the operands of an instruction, in the order of the layout table
FieldsOf(instr) ==
    CASE instr.cls = "LoadConstInstruction" -> <<instr.opcode, instr.constant, instr.address>>
      [] instr.cls = "ReadMemInstruction" ->
            <<instr.opcode, instr.offset, instr.src_addr, instr.dst_addr>>
      [] instr.cls = "WriteMemInstruction" -> <<instr.opcode, instr.src_addr, instr.dst_addr>>
      [] instr.cls = "GTEInstruction" ->
            <<instr.opcode, instr.offset1, instr.addr1, instr.addr2, instr.res_addr, instr.offset2>>

\* the opcode of each variant
TableOpcode(cls) ==
    CASE cls = "LoadConstInstruction" -> 111
      [] cls = "ReadMemInstruction" -> 40
      [] cls = "WriteMemInstruction" -> 101
      [] cls = "GTEInstruction" -> 68

\* the total bytes of each variant
TableLength(cls) ==
    CASE cls = "LoadConstInstruction" -> 6
      [] cls = "ReadMemInstruction" -> 9
      [] cls = "WriteMemInstruction" -> 8
      [] cls = "GTEInstruction" -> 13

\* the sum of the table lengths of instructions 1..k
RECURSIVE TableOffset(_, _)
TableOffset(instrs, k) ==
    IF k = 0 THEN 0 ELSE TableOffset(instrs, k - 1) + TableLength(instrs[k].cls)

\* the exclusive upper end of each operand of a mnemonic, by its declared width
TableLimits(mnemonic) ==
    CASE mnemonic = "LOAD_CONST" -> <<2048, 67108864>>
      [] mnemonic = "READ_MEM" -> <<256, 67108864, 67108864>>
      [] mnemonic = "WRITE_MEM" -> <<67108864, 67108864>>
      [] mnemonic = "GTE" -> <<256, 67108864, 67108864, 67108864, 256>>

\* the integer operands written on a line of a boundary program
Operands(line) == [i \in 1..Len(line.args) |-> int(line.args[i]).value]

OperandsFit(line) ==
    \A i \in 1..Len(line.args) :
        0 <= Operands(line)[i] /\ Operands(line)[i] < TableLimits(line.mnemonic)[i]

\* instrs with the instructions at i and j exchanged
Swap(instrs, i, j) == [instrs EXCEPT ![i] = instrs[j], ![j] = instrs[i]]

\* what the machine decodes with read_bits at PC = at of the binary code
DecodedAt(code, at) == step(code, at, data_memory).fields

\* the binary the machine holds is the file the assembler wrote
Intact == asm_pc = "written" /\ code_memory = out_file

\* the instruction the last call of step() was at, counted from 1
LastIndex == IF error = "none" THEN step_count ELSE step_count + 1

----------------------------------------------------------------------------
(* C1 *)

\* C1: round trip and position independence.  For every instruction of an
\* assembled program, whatever stands before and after it, reading the
\* fields at the byte offset of its encoding returns its opcode and its
\* operands; this also holds in the binary of the program with two
\* neighbours exchanged, and of the fields the running machine decoded.
C1_RoundTrip ==
    /\ (asm_pc = "written" /\ vm_pc = "new") =>
          /\ \A k \in 1..Len(instructions) :
                DecodedAt(out_file, TableOffset(instructions, k - 1)) = FieldsOf(instructions[k])
          /\ \A k \in 1..(Len(instructions) - 1) :
                \E sw \in {Swap(instructions, k, k + 1)} :
                \E bin \in {to_binary(sw).bytes} :
                   /\ DecodedAt(bin, TableOffset(sw, k - 1)) = FieldsOf(instructions[k + 1])
                   /\ DecodedAt(bin, TableOffset(sw, k)) = FieldsOf(instructions[k])
    /\ (Intact /\ vm_pc \in {"running", "done", "raised"} /\ fields # NoFields) =>
          /\ pc = TableOffset(instructions, LastIndex - (IF error = "none" THEN 0 ELSE 1))
          /\ fields = FieldsOf(instructions[LastIndex])

\* the machine, past a first instruction, has decoded a GTE of all-maximal operands
C1_Witness ==
    /\ Intact
    /\ pc = 6
    /\ fields = <<68, 255, 67108863, 67108863, 67108863, 255>>

----------------------------------------------------------------------------
(* C3 *)

\* C3: range enforcement.  Constructing an instruction from operands fails
\* exactly when some operand is negative or at least 2^width of its field;
\* assembly then fails, nothing is encoded for the line and no file is
\* written; when every operand fits, each instruction holds the operands as
\* written.
C3_RangeEnforcement ==
    /\ asm_pc \in {"assembled", "failed"} =>
          /\ \A i \in 1..Len(source) :
                (parse_line(source[i]) = ValueError) <=> ~OperandsFit(source[i])
          /\ (asm_pc = "failed") <=> (\E i \in 1..Len(source) : ~OperandsFit(source[i]))
          /\ asm_pc = "failed" =>
                \E i \in 1..Len(source) :
                   /\ ~OperandsFit(source[i])
                   /\ Len(instructions) = i - 1
          /\ \A k \in 1..Len(instructions) :
                /\ OperandsFit(source[k])
                /\ FieldsOf(instructions[k]) =
                      <<TableOpcode(instructions[k].cls)>> \o Operands(source[k])
    /\ asm_pc = "failed" => (out_file = <<>> /\ vm_pc = "new")
    /\ asm_pc # "crashed"

\* assembly failed on an address operand of 2^26, after a line that was accepted
C3_Witness ==
    /\ asm_pc = "failed"
    /\ Len(source) = 2
    /\ Len(instructions) = 1
    /\ Operands(source[2]) = <<67108863, 67108864>>

----------------------------------------------------------------------------
(* C2 *)

\* the binary is the encodings of instrs laid end to end at the table offsets
Concatenated(bin, instrs) ==
    /\ Len(bin) = TableOffset(instrs, Len(instrs))
    /\ \A k \in 1..Len(instrs) :
          SubSeq(bin, TableOffset(instrs, k - 1) + 1, TableOffset(instrs, k))
             = to_bytes(instrs[k]).bytes

\* C2 as claimed: the binary of an assembled program is the concatenation of
\* the encodings, and every run of it ends halted after exactly n steps with
\* PC at the end of the binary.
C2_Original ==
    /\ (asm_pc = "written" /\ vm_pc = "new") => Concatenated(out_file, instructions)
    /\ (Intact /\ vm_pc \in {"done", "raised"}) =>
          /\ vm_pc = "done"
          /\ step_count = Len(instructions)
          /\ pc = Len(code_memory)

\* C2, amended: the binary of an assembled program is the concatenation of
\* the encodings; a run of it is always at the start of instruction
\* step_count + 1, has decoded exactly the instruction it was at, and ends
\* either halted after exactly n steps with PC at the end of the binary, or
\* aborted by the index fault of an out-of-range data-memory access at one
\* of the n instructions.
C2_RunReconstructs ==
    /\ (asm_pc = "written" /\ vm_pc = "new") => Concatenated(out_file, instructions)
    /\ (Intact /\ vm_pc \in {"running", "done", "raised"}) =>
          /\ step_count <= Len(instructions)
          /\ pc = TableOffset(instructions, step_count)
          /\ fields # NoFields => fields = FieldsOf(instructions[LastIndex])
          /\ vm_pc = "done" => (step_count = Len(instructions) /\ pc = Len(code_memory))
          /\ vm_pc = "raised" => (error = "IndexError" /\ step_count < Len(instructions))

\* a run of three instructions of different lengths has halted
C2_Witness ==
    /\ Intact
    /\ vm_pc = "done"
    /\ step_count = 3
    /\ pc = 25
    /\ fields = <<68, 0, 0, 1, 2, 0>>

----------------------------------------------------------------------------
(* C7 *)

\* the byte length the table gives the variant of an opcode
OpcodeLength(opcode) ==
    CASE opcode = 111 -> 6
      [] opcode = 40 -> 9
      [] opcode = 101 -> 8
      [] opcode = 68 -> 13
      [] OTHER -> 0

\* C7: PC advancement.  A step that executes an instruction started at PC = p
\* ends with PC = p + the table length of the variant whose opcode is at p;
\* on the assembler's binary the first step ends with PC equal to the length
\* of the first instruction's variant.
C7_PCAdvance ==
    [][ (vm_pc = "running" /\ step_count' = step_count + 1) =>
           /\ pc' = pc + OpcodeLength(read_bits(code_memory, pc, 0, 7))
           /\ pc' > pc
           /\ (Intact /\ pc = 0) => pc' = TableLength(instructions[1].cls)
      ]_vars

\* a first step on a GTE has moved PC from 0 to 13
C7_Witness ==
    /\ Intact
    /\ step_count = 1
    /\ pc = 13
    /\ instructions[1].cls = "GTEInstruction"

----------------------------------------------------------------------------
(* The semantics of the four variants *)

InMemory(a) == 0 <= a /\ a < memory_size

\* the machine is about to execute instruction step_count + 1 of the program
\* it was assembled from
AtInstruction(cls) ==
    /\ Intact
    /\ vm_pc = "running"
    /\ pc < Len(code_memory)
    /\ instructions[step_count + 1].cls = cls

\* the step succeeds and writes value v to cell a, and to no other cell
Writes(a, v) ==
    /\ error' = "none"
    /\ vm_pc' = "running"
    /\ data_memory' = [data_memory EXCEPT ![a] = v]

\* the program src has run to its end on the binary assembled from it
Ran(src) == source = src /\ Intact /\ vm_pc = "done"

----------------------------------------------------------------------------
(* C4 *)

\* a step at Gte(offset1, addr1, addr2, res_addr, offset2) with every address
\* in memory writes the comparison of memory[memory[addr1] + offset1] with
\* memory[addr2] to cell memory[res_addr] + offset2
GteStep ==
    AtInstruction("GTEInstruction") =>
        LET g == instructions[step_count + 1]
        IN  (InMemory(g.addr1) /\ InMemory(g.addr2) /\ InMemory(g.res_addr)) =>
            LET ea1 == data_memory[g.addr1] + g.offset1
                er == data_memory[g.res_addr] + g.offset2
            IN  (InMemory(ea1) /\ InMemory(er)) =>
                    Writes(er, IF data_memory[ea1] >= data_memory[g.addr2] THEN 1 ELSE 0)

\* C4 as claimed: the Gte semantics, memory[2] == 0 after scenario A and
\* memory[2] == 1 after scenario B.
C4_Original ==
    /\ [][GteStep]_vars
    /\ [](Ran(ScenarioA) => data_memory[2] = 0)
    /\ [](Ran(ScenarioB) => data_memory[2] = 1)

\* C4, amended: the Gte semantics; after scenario A memory[2] == 0, and after
\* scenario B memory[2] == 0 as well: in both the step compares
\* memory[memory[0] + 0], a cell never written, with memory[1] and writes the
\* result 0 to cell memory[2] + 0 = 0.
C4_GteSemantics ==
    /\ [][GteStep]_vars
    /\ [](Ran(ScenarioA) => (data_memory[2] = 0 /\ data_memory[0] = 0 /\ data_memory[1] = 10))
    /\ [](Ran(ScenarioB) => (data_memory[2] = 0 /\ data_memory[0] = 0 /\ data_memory[1] = 5))

\* scenario B has run: the GTE compared 0 >= 5 and wrote 0 to cell 0
C4_Witness ==
    /\ Ran(ScenarioB)
    /\ result = <<"GTE", 0, 0, 5, 0>>
    /\ data_memory[0] = 0
    /\ data_memory[2] = 0

----------------------------------------------------------------------------
(* C5 *)

\* a step at ReadMem(offset, src_addr, dst_addr) with every address in memory
\* copies memory[memory[src_addr] + offset] to memory[dst_addr]
ReadMemStep ==
    AtInstruction("ReadMemInstruction") =>
        LET r == instructions[step_count + 1]
        IN  (InMemory(r.src_addr) /\ InMemory(r.dst_addr)) =>
            LET ea == data_memory[r.src_addr] + r.offset
            IN  InMemory(ea) => Writes(r.dst_addr, data_memory[ea])

\* C5: the ReadMem semantics; every cell is 0 until a step writes it; after
\* scenario C memory[6] == memory[9] == 0.
C5_ReadMemSemantics ==
    /\ [][ReadMemStep]_vars
    /\ [](step_count = 0 => \A a \in 0..(memory_size - 1) : data_memory[a] = 0)
    /\ [](Ran(ScenarioC) =>
            (data_memory[6] = 0 /\ data_memory[9] = 0 /\ data_memory[0] = 7 /\ data_memory[5] = 3))

\* scenario C has run: READ_MEM copied memory[7 + 2] to cell 6
C5_Witness ==
    /\ Ran(ScenarioC)
    /\ result = <<"READ_MEM", 6, 0, 2, 9, 0>>
    /\ data_memory[6] = 0

----------------------------------------------------------------------------
(* C6 *)

\* a step at LoadConst(constant, address) with the address in memory writes
\* the constant to memory[address]
LoadConstStep ==
    AtInstruction("LoadConstInstruction") =>
        LET l == instructions[step_count + 1]
        IN  InMemory(l.address) => Writes(l.address, l.constant)

\* a step at WriteMem(src_addr, dst_addr) with both addresses in memory copies
\* memory[src_addr] to memory[dst_addr]
WriteMemStep ==
    AtInstruction("WriteMemInstruction") =>
        LET w == instructions[step_count + 1]
        IN  (InMemory(w.src_addr) /\ InMemory(w.dst_addr)) =>
                Writes(w.dst_addr, data_memory[w.src_addr])

\* the last two instructions executed were LoadConst(c, a) and WriteMem(a, b)
LoadThenWrite(c, a, b) ==
    /\ Intact
    /\ vm_pc \in {"running", "done"}
    /\ step_count >= 2
    /\ FieldsOf(instructions[step_count - 1]) = <<111, c, a>>
    /\ FieldsOf(instructions[step_count]) = <<101, a, b>>

\* C6: the LoadConst and WriteMem semantics; after LOAD_CONST c a followed by
\* WRITE_MEM a b, memory[b] == c; after scenario D memory[4] == 42.
C6_DirectSemantics ==
    /\ [][LoadConstStep /\ WriteMemStep]_vars
    /\ [](\A k \in 2..Len(instructions) :
            (step_count = k /\ Intact /\ vm_pc \in {"running", "done"}
               /\ instructions[k - 1].cls = "LoadConstInstruction"
               /\ instructions[k].cls = "WriteMemInstruction"
               /\ instructions[k].src_addr = instructions[k - 1].address)
            => data_memory[instructions[k].dst_addr] = instructions[k - 1].constant)
    /\ [](Ran(ScenarioD) => (data_memory[4] = 42 /\ data_memory[3] = 42))

\* scenario D has run: WRITE_MEM copied the 42 of cell 3 to cell 4
C6_Witness ==
    /\ Ran(ScenarioD)
    /\ LoadThenWrite(42, 3, 4)
    /\ result = <<"WRITE_MEM", 4, 3, 42>>
    /\ data_memory[4] = 42

----------------------------------------------------------------------------
(* C8 *)

KnownOpcodes == {111, 40, 101, 68}

\* the machine is about to step on an opcode of no variant
AtUnknownOpcode ==
    /\ vm_pc = "running"
    /\ pc < Len(code_memory)
    /\ read_bits(code_memory, pc, 0, 7) \notin KnownOpcodes

\* C8: unknown opcode.  A step on an opcode that is none of 111, 40, 101, 68
\* fails with the unknown-opcode error, leaving PC and every data-memory cell
\* as they were; the run is then over: no later step changes PC, the data
\* memory or the count of steps, so what earlier steps wrote stays.
C8_UnknownOpcode ==
    /\ [][AtUnknownOpcode =>
            /\ error' = "ValueError"
            /\ vm_pc' = "raised"
            /\ pc' = pc
            /\ data_memory' = data_memory
            /\ step_count' = step_count]_vars
    /\ [][vm_pc = "raised" => UNCHANGED <<vm_pc, pc, data_memory, step_count, error>>]_vars
    /\ [](error = "ValueError" =>
            (vm_pc = "raised" /\ read_bits(code_memory, pc, 0, 7) \notin KnownOpcodes))

\* a run was aborted by an unknown opcode after two steps that wrote memory
C8_Witness ==
    /\ error = "ValueError"
    /\ vm_pc = "raised"
    /\ step_count = 2
    /\ pc = 12
    /\ data_memory[0] = 5
    /\ data_memory[1] = 10

----------------------------------------------------------------------------
(* C9 *)

\* some data-memory address the instruction decoded at PC accesses, direct or
\* effective, lies outside [0, memory_size)
OutOfRangeAccess ==
    \E f \in {DecodedAt(code_memory, pc)} :
        CASE f[1] = 111 -> ~InMemory(f[3])
          [] f[1] = 101 -> ~InMemory(f[2]) \/ ~InMemory(f[3])
          [] f[1] = 40 ->
                \/ ~InMemory(f[3]) \/ ~InMemory(f[4])
                \/ (InMemory(f[3]) /\ ~InMemory(data_memory[f[3]] + f[2]))
          [] f[1] = 68 ->
                \/ ~InMemory(f[3]) \/ ~InMemory(f[4]) \/ ~InMemory(f[5])
                \/ (InMemory(f[3]) /\ ~InMemory(data_memory[f[3]] + f[2]))
                \/ (InMemory(f[5]) /\ ~InMemory(data_memory[f[5]] + f[6]))
          [] OTHER -> FALSE

\* C9: out-of-range address.  A step whose instruction accesses a data-memory
\* address outside [0, memory_size), given as an operand or computed as
\* memory[base] + offset, ends in the index fault: the run is aborted and
\* neither PC nor any data-memory cell has changed; a step that succeeds
\* accessed only addresses inside the memory.
C9_OutOfRangeAddress ==
    /\ [][(vm_pc = "running" /\ pc < Len(code_memory) /\ OutOfRangeAccess) =>
            /\ error' = "IndexError"
            /\ vm_pc' = "raised"
            /\ pc' = pc
            /\ data_memory' = data_memory]_vars
    /\ []((error = "IndexError") => (vm_pc = "raised" /\ OutOfRangeAccess))
    /\ [](\A a \in DOMAIN data_memory : InMemory(a) /\ data_memory[a] >= 0)

\* a READ_MEM with both operand addresses in memory was aborted on its
\* effective address memory[3] + 255
C9_Witness ==
    /\ error = "IndexError"
    /\ vm_pc = "raised"
    /\ fields = <<40, 255, 3, 6>>
    /\ data_memory[3] = 42
    /\ data_memory[6] = 0

----------------------------------------------------------------------------
(* C10 *)

\* the number of lines of a source program whose runs are followed to their end
MaxLiveProg == 2

InitLive ==
    /\ source \in UNION { [1..n -> Lines] : n \in 0..MaxLiveProg } \cup {ScenarioB, ScenarioC}
    /\ verbose = TRUE
    /\ Constructed

\* run() is one thread of control: an iteration of its loop that can be
\* taken is taken
LiveSpec == InitLive /\ [][Next]_vars /\ WF_vars(RunStep) /\ WF_vars(RunExit)

\* C10: termination.  Every run stops, halted or aborted by an error, and has
\* executed at most ceil(binary length / 6) steps.
C10_Termination ==
    /\ [](6 * step_count < Len(code_memory) + 6)
    /\ (vm_pc = "running") ~> (vm_pc \in {"done", "raised"})

\* a run of the longest binary has stopped after the most steps it allows
C10_Witness ==
    /\ vm_pc = "done"
    /\ Len(code_memory) = 12
    /\ step_count = 2

----------------------------------------------------------------------------
(* C11 *)

\* the loop of run() is at its test
InRun == vm_pc = "running"

\* C11: PC monotonicity.  PC is 0 right after load_program; a step that
\* executes an instruction moves PC up by 6, 8, 9 or 13; between two loads PC
\* never goes down; run() steps while PC < binary length and is over, halted,
\* once PC >= binary length: a machine that halted has PC >= binary length,
\* one that was aborted has PC < binary length.
C11_PCMonotonic ==
    /\ [](vm_pc = "loaded" => pc = 0)
    /\ [][(InRun /\ step_count' = step_count + 1) => (pc' - pc) \in {6, 8, 9, 13}]_vars
    /\ [][vm_pc' # "loaded" => pc' >= pc]_vars
    /\ [][InRun =>
            IF pc < Len(code_memory)
            THEN (pc' > pc /\ vm_pc' = "running") \/ (pc' = pc /\ vm_pc' = "raised")
            ELSE pc' = pc /\ vm_pc' = "done"]_vars
    /\ [](vm_pc \in {"done", "dumped"} => pc >= Len(code_memory))
    /\ [](vm_pc = "raised" => pc < Len(code_memory))

\* a second program was loaded over a halted machine and has run to PC = 25
C11_Witness ==
    /\ calls = 1
    /\ vm_pc = "done"
    /\ step_count = 3
    /\ pc = 25
    /\ Len(code_memory) = 25

----------------------------------------------------------------------------
(* C12 *)

\* the bit offset and the bit width of each field of a variant, opcode first
TableBits(cls) ==
    CASE cls = "LoadConstInstruction" -> << <<0, 7>>, <<7, 11>>, <<18, 26>> >>
      [] cls = "ReadMemInstruction" -> << <<0, 7>>, <<7, 8>>, <<15, 26>>, <<41, 26>> >>
      [] cls = "WriteMemInstruction" -> << <<0, 7>>, <<7, 26>>, <<33, 26>> >>
      [] cls = "GTEInstruction" ->
            << <<0, 7>>, <<7, 8>>, <<15, 26>>, <<41, 26>>, <<67, 26>>, <<93, 8>> >>

\* the total bit width of each variant
TableWidth(cls) ==
    CASE cls = "LoadConstInstruction" -> 44
      [] cls = "ReadMemInstruction" -> 67
      [] cls = "WriteMemInstruction" -> 59
      [] cls = "GTEInstruction" -> 101

\* bit n, from 0 at the low end of the first byte, of a byte string
ByteBit(bytes, n) == (bytes[(n \div 8) + 1] \div PowersOf2[(n % 8) + 1]) % 2

\* bit k of a non-negative integer
RECURSIVE ValueBit(_, _)
ValueBit(v, k) == IF k = 0 THEN v % 2 ELSE ValueBit(v \div 2, k - 1)

\* the bytes enc are the fields of instr, each at its table offset, and zeros
LaidOut(enc, instr) ==
    LET bits == TableBits(instr.cls)
        f == FieldsOf(instr)
    IN  /\ Len(enc) = TableLength(instr.cls)
        /\ Len(f) = Len(bits)
        /\ \A i \in 1..Len(bits) : \A k \in 0..(bits[i][2] - 1) :
               ByteBit(enc, bits[i][1] + k) = ValueBit(f[i], k)
        /\ \A i \in 1..(Len(bits) - 1) : bits[i + 1][1] = bits[i][1] + bits[i][2]
        /\ bits[Len(bits)][1] + bits[Len(bits)][2] = TableWidth(instr.cls)
        /\ \A n \in TableWidth(instr.cls)..(8 * Len(enc) - 1) : ByteBit(enc, n) = 0
        /\ enc[1] % 128 = TableOpcode(instr.cls)

\* C12: bit-exact layout.  In the binary written for a program, the encoding
\* of every instruction has each field's bits at the field's table offset,
\* low bit first; the fields are adjacent and do not overlap; the low 7 bits
\* of the first byte are the variant's opcode; every bit above the total
\* width is 0.
C12_BitExactLayout ==
    (asm_pc = "written" /\ vm_pc = "new") =>
        \A k \in 1..Len(instructions) :
            \E enc \in {to_bytes(instructions[k])} :
                /\ enc.err = "none"
                /\ LaidOut(enc.bytes, instructions[k])
                /\ enc.bytes = SubSeq(out_file, TableOffset(instructions, k - 1) + 1,
                                      TableOffset(instructions, k))

\* the GTE of all-maximum operands is written: its last byte holds the five
\* high bits of offset2 and three zero bits
C12_Witness ==
    /\ asm_pc = "written"
    /\ vm_pc = "new"
    /\ Len(instructions) = 1
    /\ FieldsOf(instructions[1]) = <<68, 255, 67108863, 67108863, 67108863, 255>>
    /\ out_file[1] = 196
    /\ out_file[13] = 31

----------------------------------------------------------------------------
(* C13 *)

\* C13: byte length.  to_bytes() of every instruction the assembler
\* constructed succeeds and returns as many bytes as the table gives its
\* variant; to_binary() therefore never fails, and the file written has the
\* sum of these lengths.
C13_ByteLength ==
    /\ asm_pc \in {"assembled", "failed"} =>
          \A k \in 1..Len(instructions) :
              \E enc \in {to_bytes(instructions[k])} :
                  enc.err = "none" /\ Len(enc.bytes) = TableLength(instructions[k].cls)
    /\ asm_pc # "crashed"
    /\ (asm_pc = "written" /\ vm_pc = "new") =>
          Len(out_file) = TableOffset(instructions, Len(instructions))

\* the WRITE_MEM of all-maximum operands after a GTE is written: 13 + 8 bytes
C13_Witness ==
    /\ asm_pc = "written"
    /\ Len(instructions) = 2
    /\ FieldsOf(instructions[2]) = <<101, 67108863, 67108863>>
    /\ instructions[1].cls = "GTEInstruction"
    /\ Len(out_file) = 21

----------------------------------------------------------------------------
(* C14 *)

\* the addresses a with start <= a <= end_addr inside the memory, ascending,
\* each with the value of its cell
CellsInRange(mem, start_addr, end_addr) ==
    LET lo == Max(start_addr, 0)
        hi == Min(end_addr, memory_size - 1)
    IN  [i \in 1..Max(hi - lo + 1, 0) |-> <<lo + i - 1, mem[lo + i - 1]>>]

\* C14 as claimed: for every start and end, negative ones included, the dump
\* succeeds and lists exactly the addresses of the range that are inside the
\* memory, ascending, each with the value of its cell; it changes neither the
\* data memory nor PC.
C14_Original ==
    /\ [](vm_pc = "dumped" =>
            /\ dump.err = "none"
            /\ dump.cells = CellsInRange(data_memory, dump.range[1], dump.range[2]))
    /\ [][vm_pc' = "dumped" => UNCHANGED <<pc, data_memory, code_memory>>]_vars

\* a dump of -1..1 after scenario D listed address -1, outside the memory,
\* with the value of the last cell, before the cells 0 and 1
C14_Witness ==
    /\ vm_pc = "dumped"
    /\ source = ScenarioD
    /\ dump.err = "none"
    /\ dump.range = <<-1, 1>>
    /\ dump.cells = << <<-1, data_memory[memory_size - 1]>>, <<0, 0>>, <<1, 0>> >>

----------------------------------------------------------------------------
(* C15 *)

\* the first line of src that parse_line rejects, 0 if there is none
RECURSIVE FirstInvalid(_, _)
FirstInvalid(src, k) ==
    IF k > Len(src) THEN 0
    ELSE IF parse_line(src[k]) = ValueError THEN k
    ELSE FirstInvalid(src, k + 1)

\* C15 as claimed: assembling a source with an invalid line fails, and then
\* no binary file is written and the assembler holds no instruction that a
\* following to_binary() would emit.
C15_Original ==
    /\ (asm_pc # "start" /\ FirstInvalid(source, 1) # 0) => asm_pc = "failed"
    /\ asm_pc = "failed" =>
          /\ out_file = <<>>
          /\ vm_pc = "new"
          /\ instructions = <<>>
          /\ to_binary(instructions).bytes = <<>>

\* assembly failed at line 2 and the assembler holds the instruction of
\* line 1, which to_binary() encodes as 6 bytes
C15_Witness ==
    /\ asm_pc = "failed"
    /\ source = HalfValid
    /\ FirstInvalid(source, 1) = 2
    /\ out_file = <<>>
    /\ FieldsOf(instructions[1]) = <<111, 5, 0>>
    /\ Len(to_binary(instructions).bytes) = 6

----------------------------------------------------------------------------
(* C16 *)

\* PC is at or past the end of the binary of a machine that is not failed
Halted == pc >= Len(code_memory) /\ vm_pc \in {"done", "running", "dumped"}

\* C16: halted is absorbing.  On a halted machine every call of step()
\* returns None, every call of run() executes zero steps, and both leave PC,
\* the data memory and the binary as they were; only load_program takes the
\* machine out of the halted state.
C16_HaltedAbsorbing ==
    /\ [][Halted =>
            \/ vm_pc' = "loaded" /\ pc' = 0
            \/ Halted' /\ UNCHANGED <<pc, data_memory, code_memory, error>>]_vars
    /\ [][(vm_pc = "done" /\ vm_pc' = "done" /\ calls' = calls + 1) =>
            result' = NoResult /\ UNCHANGED <<step_count, stdout>>]_vars
    /\ [][(vm_pc = "done" /\ vm_pc' = "running") => step_count' = 0]_vars
    /\ [][(vm_pc = "running" /\ Halted) =>
            vm_pc' = "done" /\ step_count' = step_count]_vars

\* scenario A has run, then run() was called again and executed no step, and
\* step() returned None; PC and the memory are those of the first run
C16_Witness ==
    /\ source = ScenarioA
    /\ Intact
    /\ vm_pc = "done"
    /\ calls = 2
    /\ step_count = 0
    /\ result = NoResult
    /\ pc = 25
    /\ data_memory[1] = 10

----------------------------------------------------------------------------
(* C17 *)

\* what k calls of step() in a row return, the last one, on a machine just
\* constructed and loaded with code; a call that raised is the last
RECURSIVE StepsFromStart(_, _)
StepsFromStart(code, k) ==
    IF k = 0 THEN Returned(0, [i \in 0..(memory_size - 1) |-> 0], NoResult, NoFields)
    ELSE Eval(StepsFromStart(code, k - 1),
              LAMBDA prev : IF prev.error # "none" THEN prev
                            ELSE step(code, prev.pc, prev.data_memory))

\* C17: tracing is a side channel.  With verbose and without, every
\* iteration of run() changes PC, the data memory and the error exactly as
\* step() does; the first run of a machine is, with verbose and without,
\* where step_count calls of step() from the start lead (one more if it was
\* aborted); printing only appends to the output, and only with verbose.
C17_TracingSideChannel ==
    /\ [][(vm_pc = "running" /\ pc < Len(code_memory)) =>
            \E r \in {step(code_memory, pc, data_memory)} :
                /\ pc' = r.pc
                /\ data_memory' = r.data_memory
                /\ error' = r.error
                /\ step_count' = IF r.error = "none" THEN step_count + 1 ELSE step_count]_vars
    /\ []((calls = 0 /\ vm_pc \in {"running", "done", "raised", "dumped"}) =>
            \E t \in {StepsFromStart(code_memory, LastIndex)} :
                pc = t.pc /\ data_memory = t.data_memory /\ error = t.error)
    /\ [][verbose' = verbose
            /\ (stdout' # stdout =>
                   verbose /\ Len(stdout') = Len(stdout) + 1
                           /\ SubSeq(stdout', 1, Len(stdout)) = stdout)]_vars
    /\ [](~verbose => stdout = <<>>)

\* a verbose run of scenario A has printed its three steps and the count
C17_Witness ==
    /\ source = ScenarioA
    /\ Intact
    /\ verbose
    /\ vm_pc = "done"
    /\ calls = 0
    /\ stdout = << <<"step", 1, <<"LOAD_CONST", 0, 5>> >>, <<"step", 2, <<"LOAD_CONST", 1, 10>> >>,
                   <<"step", 3, <<"GTE", 0, 0, 10, 0>> >>, <<"total", 3>> >>
    /\ pc = 25
    /\ data_memory[1] = 10

----------------------------------------------------------------------------
(* C18 *)

\* the cell a completed step may write, from the fields f it decoded and the
\* memory mem it started on
Destination(f, mem) ==
    CASE f[1] = 111 -> f[3]
      [] f[1] = 40 -> f[4]
      [] f[1] = 101 -> f[3]
      [] f[1] = 68 -> mem[f[5]] + f[6]

\* the cells whose value the transition changes
Changed == { a \in DOMAIN data_memory : data_memory'[a] # data_memory[a] }

\* C18: step atomicity and frame.  A step that completes moves PC and
\* changes at most one cell, the destination of its instruction; a step that
\* fails, on an unknown opcode or on an address outside the memory, leaves PC
\* and the whole data memory as they were; no step changes the size of the
\* memory or the binary.
C18_StepAtomicity ==
    /\ [][(vm_pc = "running" /\ pc < Len(code_memory)) =>
            /\ DOMAIN data_memory' = DOMAIN data_memory
            /\ code_memory' = code_memory
            /\ IF error' = "none"
               THEN /\ pc' > pc
                    /\ Changed \subseteq {Destination(fields', data_memory)}
               ELSE /\ error' \in {"ValueError", "IndexError"}
                    /\ vm_pc' = "raised"
                    /\ pc' = pc
                    /\ data_memory' = data_memory]_vars
    /\ [][data_memory' # data_memory => (vm_pc = "running" /\ vm_pc' = "running")]_vars

\* the READ_MEM of FarRead failed on its effective address 2047 + 255 after
\* the LOAD_CONST before it completed: PC is at the READ_MEM, cell 1 untouched
C18_Witness ==
    /\ source = FarRead
    /\ Intact
    /\ vm_pc = "raised"
    /\ error = "IndexError"
    /\ fields = <<40, 255, 0, 1>>
    /\ pc = 6
    /\ step_count = 1
    /\ data_memory[0] = 2047
    /\ data_memory[1] = 0

----------------------------------------------------------------------------
(* C19 *)

\* the effective addresses memory[base] + offset an instruction of fields f
\* computes on the memory mem, for the bases that are inside the memory
EffectiveAddresses(f, mem) ==
    CASE f # NoFields /\ f[1] = 40 ->
            IF InMemory(f[3]) THEN {mem[f[3]] + f[2]} ELSE {}
      [] f # NoFields /\ f[1] = 68 ->
            (IF InMemory(f[3]) THEN {mem[f[3]] + f[2]} ELSE {})
            \cup (IF InMemory(f[5]) THEN {mem[f[5]] + f[6]} ELSE {})
      [] OTHER -> {}

\* the direct operand addresses of an instruction of fields f
DirectAddresses(f) ==
    CASE f = NoFields -> {}
      [] f[1] = 111 -> {f[3]}
      [] f[1] = 40 -> {f[3], f[4]}
      [] f[1] = 101 -> {f[2], f[3]}
      [] f[1] = 68 -> {f[3], f[4], f[5]}
      [] OTHER -> {}

\* C19: bounded memory values.  Every cell always holds an integer in
\* [0, 2047]; every effective address a step computes is in [0, 2302]; a
\* step whose direct operand addresses are all inside the memory fails only
\* on an effective address in [memory_size, 2302], which needs a memory of
\* fewer than 2303 cells.
C19_BoundedValues ==
    /\ [](\A a \in DOMAIN data_memory : data_memory[a] \in 0..2047)
    /\ [][(vm_pc = "running" /\ pc < Len(code_memory)) =>
            /\ \A ea \in EffectiveAddresses(fields', data_memory) : ea \in 0..2302
            /\ (error' = "IndexError" /\ \A a \in DirectAddresses(fields') : InMemory(a)) =>
                  \E ea \in EffectiveAddresses(fields', data_memory) :
                      memory_size <= ea /\ ea <= 2302]_vars

\* cell 0 holds the largest constant, and a READ_MEM through it with the
\* largest offset failed on the effective address 2302
C19_Witness ==
    /\ error = "IndexError"
    /\ data_memory[0] = 2047
    /\ EffectiveAddresses(fields, data_memory) = {2302}
    /\ \A a \in DirectAddresses(fields) : InMemory(a)

----------------------------------------------------------------------------
(* C20 *)

\* C20 as claimed: every step that executes an instruction at PC = p has all
\* the bytes of the instruction's variant inside the binary; a shorter
\* trailing fragment never changes the data memory; a run that halts ends
\* with PC equal to the binary length.
C20_Original ==
    /\ [][(vm_pc = "running" /\ pc < Len(code_memory) /\ error' = "none") =>
            pc + OpcodeLength(read_bits(code_memory, pc, 0, 7)) <= Len(code_memory)]_vars
    /\ [][(vm_pc = "running" /\ pc < Len(code_memory)
              /\ pc + OpcodeLength(read_bits(code_memory, pc, 0, 7)) > Len(code_memory)) =>
            data_memory' = data_memory]_vars
    /\ [](vm_pc = "done" => pc = Len(code_memory))

\* the binary of scenario D less its last byte has run: the WRITE_MEM, of
\* which 7 of 8 bytes exist, copied cell 3 to cell 4 and left PC past the end
C20_Witness ==
    /\ source = ScenarioD
    /\ Len(out_file) = 14
    /\ code_memory = SubSeq(out_file, 1, 13)
    /\ vm_pc = "done"
    /\ calls = 0
    /\ step_count = 2
    /\ fields = <<101, 3, 4>>
    /\ data_memory[4] = 42
    /\ pc = 14

====
